---- MODULE Spec2Model ----
(***************************************************************************)
(* A model of the two algorithmic parts of the inatcog query compiler:     *)
(*   - the taxon matcher of src/inatcog/taxa.py (score_match, match_taxon, *)
(*     maybe_match_taxon, maybe_match_taxa);                               *)
(*   - the natural-language lexer of src/inatcog/core/parsers/natural.py   *)
(*     (NaturalParser.parse).                                              *)
(*                                                                         *)
(* Strings are sequences of words (the words of a space-separated text),   *)
(* so ' '.join(words) of a list of words is that list read as a string.    *)
(* Python's None is the empty sequence for strings and 0 for ids; the      *)
(* empty str and the id 0 are not among the inputs.                        *)
(***************************************************************************)
EXTENDS Integers, Sequences, FiniteSets, TLC

VARIABLES
    query,        \* maybe_match_taxon: the query argument
    ancestor_id,  \* maybe_match_taxon: the ancestor_id argument (0 is None)
    records,      \* the list get_taxa returned, as get_fields_from_results maps it
    scores,       \* match_taxon's scores list (<<>> until every record is scored)
    result,       \* what the call returned or raised
    calls,        \* the calls made so far, in order
    pc,           \* "start" before the call, "done" after it
    queries,      \* maybe_match_taxa: the compound query (ancestor, main)
    anc_rec,      \* maybe_match_taxa: rec, the ancestor's record once resolved
    argument,     \* NaturalParser.parse: the text to parse, as its words
    tokens,       \* parse: what shlex.split made of the normalized text
    lexed,        \* parse: the locals of the token loop after the last token
    parsed        \* parse: what it handed on (the canonical words) or raised

matcher_vars == <<query, ancestor_id, records, scores, result, calls, queries, anc_rec>>

lexer_vars == <<argument, tokens, lexed, parsed>>

vars == <<matcher_vars, lexer_vars, pc>>

(***************************************************************************)
(* Bounds                                                                  *)
(***************************************************************************)
MaxRecords == 3

MaxFound == 2

MaxTokens == 4

(***************************************************************************)
(* Strings                                                                 *)
(***************************************************************************)
None == <<>>

\* str.lower() / re.I on one word
LowerOf ==
    [w \in {"Ardea", "Aves", "Birds", "Great", "Blue", "Heron", "Homo", "GBHE"} |->
        CASE w = "Ardea" -> "ardea"
          [] w = "Aves" -> "aves"
          [] w = "Birds" -> "birds"
          [] w = "Great" -> "great"
          [] w = "Blue" -> "blue"
          [] w = "Heron" -> "heron"
          [] w = "Homo" -> "homo"
          [] w = "GBHE" -> "gbhe"]

LowerWord(w) == IF w \in DOMAIN LowerOf THEN LowerOf[w] ELSE w

Lower(s) == [i \in 1..Len(s) |-> LowerWord(s[i])]

\* s has the words of p as a run of whole words
Contains(s, p) ==
    \E i \in 0..(Len(s) - Len(p)) : \A j \in 1..Len(p) : s[i + j] = p[j]

(***************************************************************************)
(* Taxon records and queries (the inputs)                                  *)
(***************************************************************************)
RANKS == <<"kingdom", "phylum", "class", "order", "family", "genus", "species", "subspecies">>

\* The taxa the search service knows: Taxon fields that do not depend on the search.
Taxa ==
    { [name |-> <<"Aves">>, taxon_id |-> 3, common |-> <<"Birds">>,
       rank |-> "class", ancestor_ids |-> <<1, 3>>],
      [name |-> <<"Ardea", "herodias">>, taxon_id |-> 5, common |-> <<"Great", "Blue", "Heron">>,
       rank |-> "species", ancestor_ids |-> <<1, 3, 4, 5>>],
      [name |-> <<"Homo">>, taxon_id |-> 7, common |-> None,
       rank |-> "genus", ancestor_ids |-> <<1, 7>>] }

\* record.get('matched_term'): absent, or the term the search matched
MatchedTerms == {None, <<"GBHE">>, <<"ardea", "herodias">>}

\* get_fields_from_results: one Taxon per result (thumbnail and observations
\* are carried along and never read by the matcher)
get_fields(t, term) ==
    [name |-> t.name, taxon_id |-> t.taxon_id, common |-> t.common, term |-> term,
     rank |-> t.rank, ancestor_ids |-> t.ancestor_ids]

TaxonRecords == {get_fields(t, term) : t \in Taxa, term \in MatchedTerms}

RecordLists == UNION {[1..n -> TaxonRecords] : n \in 0..MaxRecords}

Queries ==
    [terms : {<<"ardea", "herodias">>, <<"heron">>, <<"homo">>},
     phrases : {<<>>, << <<"blue", "heron">> >>},
     code : {None, <<"GBHE">>},
     taxon_id : {0, 5},
     ranks : {<<>>, <<"kingdom">>, <<"species">>}]

AncestorIds == {0, 3, 7}

\* a falsy query: queries.ancestor when the query names no ancestor
NoQuery == [terms |-> <<>>, phrases |-> <<>>, code |-> None, taxon_id |-> 0, ranks |-> <<>>]

AncestorQueries == {q \in Queries : q.terms = <<"heron">> /\ q.code = None /\ q.ranks = <<>>}

\* what get_taxa may answer inside maybe_match_taxa
FoundLists == UNION {[1..n -> TaxonRecords] : n \in 0..MaxFound}

(***************************************************************************)
(* Patterns: re.compile(..., re.I) and re.search                           *)
(***************************************************************************)
\* re.compile(r'^%s$' % re.escape(' '.join(terms)), re.I)
WholePattern(terms) == [anchor |-> "whole", words |-> terms]

\* re.compile(r'\b%s\b' % re.escape(' '.join(phrase)), re.I)
WordPattern(phrase) == [anchor |-> "word", words |-> phrase]

re_search(pat, s) ==
    IF pat.anchor = "whole"
    THEN Lower(s) = Lower(pat.words)
    ELSE Contains(Lower(s), Lower(pat.words))

(***************************************************************************)
(* match_name, match_exact, score_match                                    *)
(***************************************************************************)
\* NameMatch(term, name, common); err names the exception raised instead, and
\* plain marks a bare tuple (no .term/.name/.common attributes).
NameMatch(term, name, common) ==
    [err |-> "", plain |-> FALSE, term |-> term, name |-> name, common |-> common]

NO_NAME_MATCH == NameMatch(FALSE, FALSE, FALSE)

RaisedMatch(err) ==
    [err |-> err, plain |-> FALSE, term |-> FALSE, name |-> FALSE, common |-> FALSE]

\* match_name(record, pat): record.term is read first
match_name(record, pat) ==
    IF "term" \notin DOMAIN record
    THEN RaisedMatch("AttributeError")
    ELSE IF record.term = None
    THEN RaisedMatch("TypeError")
    ELSE NameMatch(re_search(pat, record.term),
                   re_search(pat, record.name),
                   IF record.common # None THEN re_search(pat, record.common) ELSE FALSE)

\* one turn of the for loop of match_exact: this_match of the pattern at hand,
\* folded into matched; rest is what the remaining patterns make of it
RECURSIVE match_exact_loop(_, _, _)
match_exact_turn(record, exact, matched, this_match) ==
    IF this_match.err # ""
    THEN this_match
    ELSE IF this_match = NO_NAME_MATCH
    THEN NO_NAME_MATCH
    ELSE IF matched.plain
    THEN RaisedMatch("AttributeError")
    ELSE match_exact_loop(
             record, Tail(exact),
             [err |-> "", plain |-> TRUE,
              term |-> matched.term \/ this_match.term,
              name |-> matched.name \/ this_match.name,
              common |-> matched.common \/ this_match.common])

\* the for loop of match_exact, from the patterns still to try
match_exact_loop(record, exact, matched) ==
    IF exact = <<>>
    THEN matched
    ELSE match_exact_turn(record, exact, matched, match_name(Head(exact), record))

match_exact(record, exact) == match_exact_loop(record, exact, NO_NAME_MATCH)

Score(n) == [err |-> "", score |-> n]

RaisedScore(err) == [err |-> err, score |-> 0]

In(x, seq) == \E i \in 1..Len(seq) : seq[i] = x

\* the if/elif chain of score_match
score_chain(q, record, anc, matched, all_matched) ==
    IF matched.err # ""
    THEN RaisedScore(matched.err)
    ELSE IF all_matched.err # ""
    THEN RaisedScore(all_matched.err)
    ELSE IF anc # 0 /\ ~In(anc, record.ancestor_ids)
    THEN Score(-1)
    ELSE IF q.code # None /\ q.code = record.term
    THEN Score(300)
    ELSE IF matched.plain
    THEN RaisedScore("AttributeError")
    ELSE IF matched.name \/ matched.common
    THEN Score(210)
    ELSE IF matched.term
    THEN Score(200)
    ELSE IF all_matched.name \/ all_matched.common
    THEN Score(120)
    ELSE IF all_matched.term
    THEN Score(110)
    ELSE Score(100)

score_match(q, record, all_terms, exact, anc) ==
    score_chain(q, record, anc,
                IF exact # <<>> THEN match_exact(record, exact) ELSE NO_NAME_MATCH,
                IF q.taxon_id # 0 THEN match_name(record, all_terms) ELSE NO_NAME_MATCH)

(***************************************************************************)
(* match_taxon                                                             *)
(***************************************************************************)
\* max(scores)
RECURSIVE max(_)
max(seq) ==
    IF Len(seq) = 1
    THEN seq[1]
    ELSE LET m == max(Tail(seq)) IN IF seq[1] >= m THEN seq[1] ELSE m

\* scores.index(value), 1-based: the first position holding value
RECURSIVE index_from(_, _, _)
index_from(seq, value, i) ==
    IF seq[i] = value THEN i ELSE index_from(seq, value, i + 1)

\* a scan that keeps the last position holding value
index_last(seq, value) ==
    CHOOSE i \in 1..Len(seq) :
        seq[i] = value /\ \A j \in (i + 1)..Len(seq) : seq[j] # value

index(seq, value) == index_from(seq, value, 1)

\* exact: one pattern per phrase of the query
exact_patterns(q) == [i \in 1..Len(q.phrases) |-> WordPattern(q.phrases[i])]

\* the scoring loop: score_match of every record, in order
score_all(q, recs, anc) ==
    [i \in 1..Len(recs) |->
        score_match(q, recs[i], WholePattern(q.terms), exact_patterns(q), anc)]

\* min_score_met
min_score_met(best_score, exact) ==
    (best_score >= 0) /\ ((exact = <<>>) \/ (best_score >= 200))

NoRecord ==
    [name |-> None, taxon_id |-> 0, common |-> None, term |-> None,
     rank |-> "", ancestor_ids |-> <<>>]

\* an outcome: a returned record, or a raised exception with its message
\* (the format string, then its arguments)
Returned(r, sc) == [kind |-> "return", msg |-> <<>>, rec |-> r, scores |-> sc]

Raised(kind, msg) == [kind |-> kind, msg |-> msg, rec |-> NoRecord, scores |-> <<>>]

\* best_record if min_score_met else None
best_or_none(recs, exact, sc, best_score) ==
    IF min_score_met(best_score, exact)
    THEN Returned(recs[index(sc, best_score)], sc)
    ELSE Returned(NoRecord, sc)

\* the positions whose score_match raised
failed(scored) == {i \in 1..Len(scored) : scored[i].err # ""}

first(S) == CHOOSE i \in S : \A j \in S : i <= j

\* match_taxon once score_match has run on every record: the first exception
\* raised, or the selection among the scores
select(recs, exact, scored, sc) ==
    IF failed(scored) # {}
    THEN Raised(scored[first(failed(scored))].err, <<>>)
    ELSE best_or_none(recs, exact, sc, max(sc))

\* match_taxon(query, records, ancestor_id) on a non-empty list: the record it
\* returns (NoRecord for None), or the exception score_match raised
match_taxon_scored(recs, exact, scored) ==
    select(recs, exact, scored, [i \in 1..Len(scored) |-> scored[i].score])

match_taxon(q, recs, anc) ==
    match_taxon_scored(recs, exact_patterns(q), score_all(q, recs, anc))

(***************************************************************************)
(* maybe_match_taxon                                                       *)
(***************************************************************************)
\* a call, as the log keeps it: the function, the query and ancestor_id it is
\* about, and for get_taxa its arguments
Call(fn, q, anc, args) == [fn |-> fn, query |-> q, ancestor_id |-> anc, args |-> args]

NoArgs == [id |-> 0, q |-> None, rank |-> <<>>, taxon_id |-> 0]

\* the get_taxa call maybe_match_taxon makes: by id, or by terms with the
\* rank and taxon_id arguments the query and the ancestor give
get_taxa_call(q, anc) ==
    IF q.taxon_id # 0
    THEN Call("get_taxa", q, anc, [NoArgs EXCEPT !.id = q.taxon_id])
    ELSE Call("get_taxa", q, anc, [id |-> 0, q |-> <<"+">> \o q.terms,
                                   rank |-> q.ranks, taxon_id |-> anc])

\* the calls maybe_match_taxon makes when get_taxa answers recs
calls_made(q, anc, recs) ==
    IF recs = <<>>
    THEN <<get_taxa_call(q, anc)>>
    ELSE <<get_taxa_call(q, anc), Call("match_taxon", q, anc, NoArgs)>>

\* if not rec: raise LookupError('No exact match')
found_or_raise(out) ==
    IF out.kind = "return" /\ out.rec = NoRecord
    THEN [Raised("LookupError", <<"No exact match">>) EXCEPT !.scores = out.scores]
    ELSE out

\* maybe_match_taxon without a failure of its own for an empty answer
maybe_match_taxon_one_failure(q, anc, recs) ==
    IF recs = <<>>
    THEN Raised("LookupError", <<"No exact match">>)
    ELSE found_or_raise(match_taxon(q, recs, anc))

\* maybe_match_taxon(query, ancestor_id) when get_taxa answers recs
maybe_match_taxon(q, anc, recs) ==
    IF recs = <<>>
    THEN Raised("LookupError", <<"Nothing found">>)
    ELSE found_or_raise(match_taxon(q, recs, anc))

(***************************************************************************)
(* The lexer's words: str.lower, the "--" prefix, the argument names and   *)
(* the macro table                                                         *)
(***************************************************************************)
\* the options the argument parser knows, by name
ARGPARSE_ARGS ==
    {"of", "by", "from", "opt", "rank", "not-by", "id-by", "in-prj",
     "added-on", "added-since", "added-until"}

\* the same without "of": what is still read as an option once "--of" was seen
REMAINING_ARGS == ARGPARSE_ARGS \ {"of"}

\* a macro defining nothing: MACROS[tok] is falsy
NoMacro == [opt |-> <<>>, by |-> "", from |-> "", of |-> ""]

MacroWords == {"rg", "reverse", "my", "ours", "home", "away", "herps", "fish", "alias"}

MACROS ==
    [k \in MacroWords |->
        CASE k = "rg" -> [NoMacro EXCEPT !.opt = <<"quality_grade=research">>]
          [] k = "reverse" -> [NoMacro EXCEPT !.opt = <<"order=asc">>]
          [] k = "my" -> [NoMacro EXCEPT !.by = "me"]
          [] k = "ours" -> [NoMacro EXCEPT !.by = "us"]
          [] k = "home" -> [NoMacro EXCEPT !.from = "home"]
          [] k = "away" -> [NoMacro EXCEPT !.from = "abroad"]
          [] k = "herps" -> [NoMacro EXCEPT !.of = "herps"]
          [] k = "fish" -> [NoMacro EXCEPT !.of = "fishes"]
          [] k = "alias" -> NoMacro]

\* _token.lower()
str_lower(w) ==
    CASE w = "By" -> "by"
      [] w = "My" -> "my"
      [] w = "Birds" -> "birds"
      [] w = "--By" -> "--by"
      [] w = "Not" -> "not"
      [] w = "Prj" -> "prj"
      [] OTHER -> w

\* f"--{tok}", for the names of ARGPARSE_ARGS
dashed(tok) ==
    CASE tok = "of" -> "--of"
      [] tok = "by" -> "--by"
      [] tok = "from" -> "--from"
      [] tok = "opt" -> "--opt"
      [] tok = "rank" -> "--rank"
      [] tok = "not-by" -> "--not-by"
      [] tok = "id-by" -> "--id-by"
      [] tok = "in-prj" -> "--in-prj"
      [] tok = "added-on" -> "--added-on"
      [] tok = "added-since" -> "--added-since"
      [] tok = "added-until" -> "--added-until"

\* re.match(r"--", tok)
starts_with_dashes(tok) == tok \in {dashed(a) : a \in ARGPARSE_ARGS} \cup {"--By", "--photos"}

(***************************************************************************)
(* NaturalParser.parse: the token loop                                     *)
(***************************************************************************)
\* the locals before the first token; consumed notes, per token, whether the
\* loop took it as a macro (kept for the properties, the code has no such list)
loop_start ==
    [ranks |-> <<>>, opts |-> <<>>, macro_by |-> "", macro_from |-> "", macro_of |-> "",
     expanded_tokens |-> <<>>, suppress_macro |-> FALSE, arg_count |-> 0,
     expected_args |-> ARGPARSE_ARGS, consumed |-> <<>>]

\* tok = _token.lower(); if tok in expected_args: tok = f"--{tok}"
flag_form(st, token) ==
    IF str_lower(token) \in st.expected_args
    THEN dashed(str_lower(token))
    ELSE str_lower(token)

\* option_seen as it would be if no option suppressed the macros
option_seen_unsuppressed(st, tok) ==
    [st EXCEPT !.arg_count = @ + 1,
               !.expected_args = IF tok = "--of" THEN REMAINING_ARGS ELSE @,
               !.suppress_macro = FALSE]

\* an option token: count it, and set expected_args and suppress_macro
option_seen(st, tok) ==
    [st EXCEPT !.arg_count = @ + 1,
               !.expected_args = IF tok = "--of" THEN REMAINING_ARGS ELSE @,
               !.suppress_macro = (tok # "--of")]

\* discard_macro as it would be if the explicit options left the macros alone
discard_macro_never(st, tok) == st

\* discard any prior macro expansion of --by, --from, --of
discard_macro(st, tok) ==
    [st EXCEPT !.macro_by = IF tok = "--by" THEN "" ELSE @,
               !.macro_from = IF tok = "--from" THEN "" ELSE @,
               !.macro_of = IF tok = "--of" THEN "" ELSE @]

\* collect as it would be if a value already pending were kept
collect_first_wins(st, macro) ==
    [st EXCEPT !.opts = @ \o macro.opt,
               !.macro_by = IF macro.by # "" /\ @ = "" THEN macro.by ELSE @,
               !.macro_from = IF macro.from # "" /\ @ = "" THEN macro.from ELSE @,
               !.macro_of = IF macro.of # "" /\ @ = "" THEN macro.of ELSE @,
               !.consumed = Append(@, TRUE)]

\* collect the expansions of a macro and continue
collect(st, macro) ==
    [st EXCEPT !.opts = @ \o macro.opt,
               !.macro_by = IF macro.by # "" THEN macro.by ELSE @,
               !.macro_from = IF macro.from # "" THEN macro.from ELSE @,
               !.macro_of = IF macro.of # "" THEN macro.of ELSE @,
               !.consumed = Append(@, TRUE)]

\* append_token as it would be without "arg_count += 1"
append_token_uncounted(st, tok, argument_expected) ==
    [st EXCEPT !.expanded_tokens = IF st.arg_count = 0
                                   THEN @ \o <<"--of", tok>>
                                   ELSE Append(@, tok),
               !.macro_of = IF st.arg_count = 0 THEN "" ELSE @,
               !.expected_args = IF st.arg_count = 0 THEN REMAINING_ARGS ELSE @,
               !.suppress_macro = IF argument_expected THEN @ ELSE FALSE,
               !.consumed = Append(@, FALSE)]

\* append the token, after an implicit "--of" when it comes before all options
append_token(st, tok, argument_expected) ==
    [st EXCEPT !.arg_count = IF @ = 0 THEN 1 ELSE @,
               !.expanded_tokens = IF st.arg_count = 0
                                   THEN @ \o <<"--of", tok>>
                                   ELSE Append(@, tok),
               !.macro_of = IF st.arg_count = 0 THEN "" ELSE @,
               !.expected_args = IF st.arg_count = 0 THEN REMAINING_ARGS ELSE @,
               !.suppress_macro = IF argument_expected THEN @ ELSE FALSE,
               !.consumed = Append(@, FALSE)]

\* if not suppress_macro and tok is a macro: collect it; else append the token
macro_or_token(st, tok, argument_expected) ==
    IF ~st.suppress_macro /\ tok \in DOMAIN MACROS /\ MACROS[tok] # NoMacro
    THEN collect(st, MACROS[tok])
    ELSE append_token(st, tok, argument_expected)

\* option as it would be if "--opt" and "--rank" left the collected values to
\* the flush
option_unspliced(st, tok) == macro_or_token(discard_macro(st, tok), tok, TRUE)

\* an option token, once counted: "--opt" and "--rank" take the collected
\* values along and continue; any other goes on as a token
option(st, tok) ==
    IF tok = "--opt" /\ st.opts # <<>>
    THEN [st EXCEPT !.expanded_tokens = @ \o <<"--opt">> \o st.opts,
                    !.opts = <<>>,
                    !.consumed = Append(@, FALSE)]
    ELSE IF tok = "--rank" /\ st.ranks # <<>>
    THEN [st EXCEPT !.expanded_tokens = @ \o <<"--rank">> \o st.ranks,
                    !.ranks = <<>>,
                    !.consumed = Append(@, FALSE)]
    ELSE macro_or_token(discard_macro(st, tok), tok, TRUE)

\* the loop body for tok
token_step(st, tok) ==
    IF starts_with_dashes(tok)
    THEN option(option_seen(st, tok), tok)
    ELSE macro_or_token(st, tok, FALSE)

\* the loop body for one token of the text
loop_body(st, token) == token_step(st, flag_form(st, token))

\* for _token in tokens
RECURSIVE loop(_, _)
loop(st, toks) ==
    IF toks = <<>> THEN st ELSE loop(loop_body(st, Head(toks)), Tail(toks))

\* flush as it would be if an explicit "--by" kept the macro's value out
flush_flag_wins(st) ==
    st.expanded_tokens
        \o (IF st.ranks # <<>> THEN <<"--rank">> \o st.ranks ELSE <<>>)
        \o (IF st.opts # <<>> THEN <<"--opt">> \o st.opts ELSE <<>>)
        \o (IF st.macro_by # "" /\ ~\E i \in 1..Len(st.expanded_tokens) :
                                        st.expanded_tokens[i] = "--by"
            THEN <<"--by", st.macro_by>> ELSE <<>>)
        \o (IF st.macro_from # "" THEN <<"--from", st.macro_from>> ELSE <<>>)
        \o (IF st.macro_of # "" THEN <<"--of", st.macro_of>> ELSE <<>>)

\* flush as it would be if the pending "--of" value were left out
flush_without_of(st) ==
    st.expanded_tokens
        \o (IF st.ranks # <<>> THEN <<"--rank">> \o st.ranks ELSE <<>>)
        \o (IF st.opts # <<>> THEN <<"--opt">> \o st.opts ELSE <<>>)
        \o (IF st.macro_by # "" THEN <<"--by", st.macro_by>> ELSE <<>>)
        \o (IF st.macro_from # "" THEN <<"--from", st.macro_from>> ELSE <<>>)

\* the collected arguments not yet inserted, appended after the loop
flush(st) ==
    st.expanded_tokens
        \o (IF st.ranks # <<>> THEN <<"--rank">> \o st.ranks ELSE <<>>)
        \o (IF st.opts # <<>> THEN <<"--opt">> \o st.opts ELSE <<>>)
        \o (IF st.macro_by # "" THEN <<"--by", st.macro_by>> ELSE <<>>)
        \o (IF st.macro_from # "" THEN <<"--from", st.macro_from>> ELSE <<>>)
        \o (IF st.macro_of # "" THEN <<"--of", st.macro_of>> ELSE <<>>)

Handed(words) == [kind |-> "return", words |-> words]

Failed(kind) == [kind |-> kind, words |-> <<>>]

\* join as it would be if "--of" were put first whatever the first token is
join_of_first(expanded) ==
    IF expanded = <<>>
    THEN Failed("IndexError")
    ELSE Handed(<<"--of">> \o expanded)

\* expanded_tokens[0] is read, "--of" put before it unless it is an option,
\* and the tokens are joined with spaces
join(expanded) ==
    IF expanded = <<>>
    THEN Failed("IndexError")
    ELSE IF ~starts_with_dashes(expanded[1])
    THEN Handed(<<"--of">> \o expanded)
    ELSE Handed(expanded)

(***************************************************************************)
(* NaturalParser.parse: the link test, the normalizer and shlex.split      *)
(***************************************************************************)
\* re.search(PAT_OBS_LINK, argument)
LinkWords == {"https://www.inaturalist.org/observations/1"}

has_link(text) == \E i \in 1..Len(text) : text[i] \in LinkWords

\* the words one substitution glues into one: "not by " -> "not-by ", and so on
glued(a, b) ==
    CASE a = "not" /\ b = "by" -> "not-by"
      [] a = "id" /\ b = "by" -> "id-by"
      [] a = "in" /\ b = "prj" -> "in-prj"
      [] a = "added" /\ b = "on" -> "added-on"
      [] a = "added" /\ b = "since" -> "added-since"
      [] a = "added" /\ b = "until" -> "added-until"
      [] OTHER -> ""

\* which of the three substitutions glues a and b
by_pattern(n, a, b) ==
    CASE n = 1 -> b = "by" /\ glued(a, b) # ""
      [] n = 2 -> a = "in" /\ glued(a, b) # ""
      [] n = 3 -> a = "added" /\ glued(a, b) # ""

\* the " ?" of the patterns: the same words written as one, "notby " -> "not-by "
hyphened(n, a) ==
    CASE n = 1 /\ a = "notby" -> "not-by"
      [] n = 1 /\ a = "idby" -> "id-by"
      [] n = 2 /\ a = "inprj" -> "in-prj"
      [] n = 3 /\ a = "addedon" -> "added-on"
      [] n = 3 /\ a = "addedsince" -> "added-since"
      [] n = 3 /\ a = "addeduntil" -> "added-until"
      [] OTHER -> ""

\* re.sub(pattern n, ..., text, re.I) from word i on: re.I is the count argument
\* (2), so at most count matches are replaced and case is not ignored. A match
\* needs the space (or the start) before its first word and the space after its
\* last one: the word after a match cannot start the next.
RECURSIVE re_sub(_, _, _, _, _)
re_sub(n, text, i, count, may_start) ==
    IF i > Len(text)
    THEN <<>>
    ELSE IF may_start /\ count > 0 /\ i + 2 <= Len(text) /\ by_pattern(n, text[i], text[i + 1])
    THEN <<glued(text[i], text[i + 1])>> \o re_sub(n, text, i + 2, count - 1, FALSE)
    ELSE IF may_start /\ count > 0 /\ i + 1 <= Len(text) /\ hyphened(n, text[i]) # ""
    THEN <<hyphened(n, text[i])>> \o re_sub(n, text, i + 1, count - 1, FALSE)
    ELSE <<text[i]>> \o re_sub(n, text, i + 1, count, TRUE)

\* re.I, given where re.sub takes its count
RE_I == 2

sub(n, text) == re_sub(n, text, 1, RE_I, TRUE)

\* arg_normalized
normalize(text) == sub(3, sub(2, sub(1, text)))

\* a word that opens a quotation; the texts considered hold at most one, and
\* no word that closes it, so that shlex.split finds no closing quotation
OpenQuoted == {"'birds"}

\* shlex.split(arg_normalized, posix=False) raises ValueError
shlex_fails(text) == \E i \in 1..Len(text) : text[i] \in OpenQuoted

\* parse(argument): the text itself for a link, BadArgument for a text that
\* does not split, else the canonical words of the loop and the flush
parse(text) ==
    IF has_link(text)
    THEN Handed(text)
    ELSE IF shlex_fails(normalize(text))
    THEN Failed("BadArgument")
    ELSE join(flush(loop(loop_start, normalize(text))))

\* the lexer at rest
LexerIdle ==
    /\ argument = <<>>
    /\ tokens = <<>>
    /\ lexed = loop_start
    /\ parsed = Failed("")

(***************************************************************************)
(* Spec: one call of maybe_match_taxon                                     *)
(***************************************************************************)
Init ==
    /\ query \in Queries
    /\ ancestor_id \in AncestorIds
    /\ records = <<>>
    /\ scores = <<>>
    /\ result = Raised("", <<>>)
    /\ calls = <<>>
    /\ pc = "start"
    /\ queries = [ancestor |-> NoQuery, main |-> NoQuery]
    /\ anc_rec = NoRecord
    /\ LexerIdle

\* maybe_match_taxon(query, ancestor_id); recs is what get_taxa answers
MaybeMatchTaxon ==
    /\ pc = "start"
    /\ \E recs \in RecordLists :
          /\ records' = recs
          /\ \E out \in {maybe_match_taxon(query, ancestor_id, recs)} :
                /\ result' = out
                /\ scores' = out.scores
          /\ calls' = calls_made(query, ancestor_id, recs)
    /\ pc' = "done"
    /\ UNCHANGED <<query, ancestor_id, queries, anc_rec, lexer_vars>>

Next == MaybeMatchTaxon

Spec == Init /\ [][Next]_vars

(***************************************************************************)
(* Properties of the matcher (checked under Spec)                          *)
(***************************************************************************)
Done == pc = "done"

Scored == Done /\ scores # <<>>

NoAcceptableMatch == result.kind = "LookupError" /\ result.msg = <<"No exact match">>

NothingFound == result.kind = "LookupError" /\ result.msg = <<"Nothing found">>

Excluded(rec) == ancestor_id # 0 /\ ~In(ancestor_id, rec.ancestor_ids)

\* C1: once every candidate is scored, the candidate match_taxon settles on has
\* the maximum score and every candidate before it scores strictly less; a
\* returned record is that candidate.
C1_FirstMaximum ==
    Scored =>
        \E i \in 1..Len(records) :
            /\ \A j \in 1..Len(records) : scores[j] <= scores[i]
            /\ \A j \in 1..(i - 1) : scores[j] < scores[i]
            /\ result.kind = "return" => result.rec = records[i]

\* C1 witness: two different candidates tie on the maximum and the earlier is returned
C1_TieReached ==
    /\ Scored
    /\ result.kind = "return"
    /\ \E i, j \in 1..Len(records) :
          /\ i < j
          /\ scores[i] = scores[j]
          /\ \A k \in 1..Len(records) : scores[k] <= scores[i]
          /\ records[i] # records[j]
          /\ result.rec = records[i]

\* C2: on a non-empty candidate list the best candidate is returned exactly when
\* its score is >= 0 and (no phrases were supplied or the score is >= 200);
\* every other outcome is the no-acceptable-match failure.
C2_AcceptanceThreshold ==
    (Done /\ records # <<>>) =>
        \/ /\ result.kind = "return"
           /\ max(scores) >= 0
           /\ (query.phrases = <<>> \/ max(scores) >= 200)
        \/ /\ NoAcceptableMatch
           /\ scores # <<>>
           /\ ~(max(scores) >= 0 /\ (query.phrases = <<>> \/ max(scores) >= 200))

\* C3: under an ancestor constraint every excluded candidate scores -1 and is
\* never the result: all excluded gives the no-acceptable-match failure, and
\* otherwise the result is a candidate that is not excluded.
C3_AncestorRejection ==
    (Done /\ records # <<>> /\ ancestor_id # 0) =>
        /\ scores # <<>>
        /\ \A i \in 1..Len(records) : Excluded(records[i]) => scores[i] = -1
        /\ (\A i \in 1..Len(records) : Excluded(records[i])) => NoAcceptableMatch
        /\ (\E i \in 1..Len(records) : ~Excluded(records[i])) =>
              /\ result.kind = "return"
              /\ ~Excluded(result.rec)

CodeMatch(rec) == query.code # None /\ ~Excluded(rec) /\ rec.term = query.code

\* C4: when some candidate that is not ancestor-rejected has the query's code as
\* its term, it scores 300 and the matcher returns a candidate whose term is
\* the code, wherever it stands in the list.
C4_ExactCode ==
    (Done /\ \E i \in 1..Len(records) : CodeMatch(records[i])) =>
        /\ scores # <<>>
        /\ \A i \in 1..Len(records) : CodeMatch(records[i]) => scores[i] = 300
        /\ result.kind = "return"
        /\ result.rec.term = query.code

PhraseOnName(rec) ==
    /\ ~Excluded(rec)
    /\ ~CodeMatch(rec)
    /\ \E k \in 1..Len(query.phrases) :
          \/ re_search(WordPattern(query.phrases[k]), rec.name)
          \/ rec.common # None /\ re_search(WordPattern(query.phrases[k]), rec.common)

\* C5: a candidate whose name or common name holds one of the query's phrases,
\* and that is neither ancestor-rejected nor a code match, scores 210, and is
\* returned rather than a candidate scoring the default 100.
C5_PhraseOnName ==
    (Done /\ \E i \in 1..Len(records) : PhraseOnName(records[i])) =>
        /\ scores # <<>>
        /\ \A i \in 1..Len(records) : PhraseOnName(records[i]) => scores[i] = 210
        /\ result.kind = "return"
        /\ \E i \in 1..Len(records) : result.rec = records[i] /\ scores[i] >= 210

\* C6: an empty answer from the search fails with 'Nothing found', before any
\* scoring (match_taxon is not called), and no non-empty answer fails that way.
C6_NothingFound ==
    Done =>
        /\ (records = <<>>) =>
              /\ NothingFound
              /\ scores = <<>>
              /\ \A i \in 1..Len(calls) : calls[i].fn # "match_taxon"
        /\ (records # <<>>) => ~NothingFound

\* C6 witness: the search answered with no record
C6_EmptyAnswer == Done /\ records = <<>> /\ NothingFound /\ Len(calls) = 1

(***************************************************************************)
(* maybe_match_taxa, and SpecTaxa: one call of it                          *)
(***************************************************************************)
\* RANKS.index(rank), 1-based
rank_index(rank) == CHOOSE i \in 1..Len(RANKS) : RANKS[i] = rank

\* set(RANKS[index:len(RANKS)])
ancestor_ranks(r) == {RANKS[i] : i \in rank_index(r.rank)..Len(RANKS)}

\* set(queries.main.ranks)
child_ranks(q) == {q.ranks[i] : i \in 1..Len(q.ranks)}

\* the check never fails
ranks_never_clash(r, q) == FALSE

\* the condition of the rank check
ranks_clash(r, q) ==
    child_ranks(q) # {} /\ (ancestor_ranks(r) \cap child_ranks(q)) = {}

InitTaxa ==
    /\ queries \in [ancestor : AncestorQueries \cup {NoQuery}, main : Queries]
    /\ anc_rec = NoRecord
    /\ result = Raised("", <<>>)
    /\ calls = <<>>
    /\ pc = "start"
    /\ query = NoQuery
    /\ ancestor_id = 0
    /\ records = <<>>
    /\ scores = <<>>
    /\ LexerIdle

\* the ancestor's part of maybe_match_taxa when get_taxa answers recs: the
\* exception of maybe_match_taxon, the rank error, or the child's turn
rank_check(out, main) ==
    IF out.kind # "return"
    THEN [result |-> out, rec |-> NoRecord, pc |-> "done"]
    ELSE IF ranks_clash(out.rec, main)
    THEN [result |-> Raised("LookupError",
                        <<"Child ranks must be below ancestor rank: %s", out.rec.rank>>),
          rec |-> out.rec, pc |-> "done"]
    ELSE [result |-> Raised("", <<>>), rec |-> out.rec, pc |-> "child"]

after_ancestor(qs, recs) == rank_check(maybe_match_taxon(qs.ancestor, 0, recs), qs.main)

\* if queries.ancestor: resolve it, then check the child's ranks against it
MatchAncestor ==
    /\ pc = "start"
    /\ queries.ancestor # NoQuery
    /\ \E recs \in FoundLists :
          \E after \in {after_ancestor(queries, recs)} :
              /\ calls' = calls \o calls_made(queries.ancestor, 0, recs)
              /\ result' = after.result
              /\ anc_rec' = after.rec
              /\ pc' = after.pc
    /\ UNCHANGED <<query, ancestor_id, records, scores, queries, lexer_vars>>

\* rec = maybe_match_taxon(queries.main, ancestor_id=rec.taxon_id)
MatchChild ==
    /\ pc = "child"
    /\ \E recs \in FoundLists :
          /\ result' = maybe_match_taxon(queries.main, anc_rec.taxon_id, recs)
          /\ calls' = calls \o calls_made(queries.main, anc_rec.taxon_id, recs)
    /\ pc' = "done"
    /\ UNCHANGED <<query, ancestor_id, records, scores, queries, anc_rec, lexer_vars>>

\* else: rec = maybe_match_taxon(queries.main)
MatchMain ==
    /\ pc = "start"
    /\ queries.ancestor = NoQuery
    /\ \E recs \in FoundLists :
          /\ result' = maybe_match_taxon(queries.main, 0, recs)
          /\ calls' = calls \o calls_made(queries.main, 0, recs)
    /\ pc' = "done"
    /\ UNCHANGED <<query, ancestor_id, records, scores, queries, anc_rec, lexer_vars>>

NextTaxa == MatchAncestor \/ MatchChild \/ MatchMain

SpecTaxa == InitTaxa /\ [][NextTaxa]_vars

\* every rank of the child lies above the ancestor's rank
AllAbove(r, q) ==
    /\ q.ranks # <<>>
    /\ \A k \in 1..Len(q.ranks) :
          \A i, j \in 1..Len(RANKS) :
              (RANKS[i] = q.ranks[k] /\ RANKS[j] = r.rank) => i < j

\* C7: with an ancestor resolved, a child restricted to ranks that all lie above
\* the ancestor's rank fails with the rank error naming that rank and nothing
\* is searched or matched for the child; otherwise the child is searched after
\* the ancestor, with the ancestor's taxon id as its ancestor constraint.
C7_RankCheckFirst ==
    /\ (queries.ancestor # NoQuery /\ anc_rec = NoRecord) =>
          \A i \in 1..Len(calls) :
              calls[i].query = queries.ancestor /\ calls[i].ancestor_id = 0
    /\ (queries.ancestor # NoQuery /\ anc_rec # NoRecord) =>
          IF AllAbove(anc_rec, queries.main)
          THEN /\ pc = "done"
               /\ result = Raised("LookupError",
                       <<"Child ranks must be below ancestor rank: %s", anc_rec.rank>>)
               /\ Len(calls) = 2
               /\ \A i \in 1..Len(calls) :
                     calls[i].query = queries.ancestor /\ calls[i].ancestor_id = 0
          ELSE /\ pc = "child" => Len(calls) = 2
               /\ pc = "done" =>
                     /\ Len(calls) >= 3
                     /\ calls[1].fn = "get_taxa" /\ calls[1].query = queries.ancestor
                     /\ calls[2].fn = "match_taxon" /\ calls[2].query = queries.ancestor
                     /\ \A i \in 3..Len(calls) :
                           /\ calls[i].query = queries.main
                           /\ calls[i].ancestor_id = anc_rec.taxon_id
                     /\ calls[3].fn = "get_taxa"
                     /\ calls[3].args.id = 0 => calls[3].args.taxon_id = anc_rec.taxon_id

\* C7 witness: the rank check stopped a child restricted to ranks above the ancestor
C7_ClashReached ==
    /\ pc = "done"
    /\ anc_rec # NoRecord
    /\ AllAbove(anc_rec, queries.main)
    /\ result.kind = "LookupError"
    /\ Len(result.msg) = 2

(***************************************************************************)
(* SpecLex: one call of NaturalParser.parse                                *)
(***************************************************************************)
\* the texts parse is given: up to MaxTokens words of one of these vocabularies
SubjectWords ==
    {"birds", "me", "by", "By", "of", "--of", "my", "herps"}

MacroTexts ==
    {"my", "ours", "home", "away", "herps", "fish", "reverse", "rg"}

FlagWords ==
    {"--by", "by", "me", "my", "ours", "--from", "home", "birds"}

KeywordPhrases ==
    {"not", "Not", "by", "in", "prj", "Prj", "added", "since"}

QuotesAndLinks ==
    {"'birds", "https://www.inaturalist.org/observations/1", "birds", "by", "me", "my"}

OfArguments ==
    {"--of", "of", "rg", "birds", "--from", "home", "my", "Birds"}

OptionWords ==
    {"reverse", "rg", "birds", "opt", "--opt", "observed_on=x", "my", "by"}

LexWords ==
    {SubjectWords, MacroTexts, FlagWords, KeywordPhrases, QuotesAndLinks, OfArguments,
     OptionWords}

\* the texts over words: at most one word of a text opens a quotation
texts(words) ==
    {text \in UNION {[1..n -> words] : n \in 0..MaxTokens} :
        Cardinality({i \in 1..Len(text) : text[i] \in OpenQuoted}) <= 1}

Arguments == UNION {texts(words) : words \in LexWords}

InitLex ==
    /\ argument \in Arguments
    /\ tokens = <<>>
    /\ lexed = loop_start
    /\ parsed = Failed("")
    /\ pc = "start"
    /\ query = NoQuery
    /\ ancestor_id = 0
    /\ records = <<>>
    /\ scores = <<>>
    /\ result = Raised("", <<>>)
    /\ calls = <<>>
    /\ queries = [ancestor |-> NoQuery, main |-> NoQuery]
    /\ anc_rec = NoRecord

Parse ==
    /\ pc = "start"
    /\ tokens' = IF has_link(argument) \/ shlex_fails(normalize(argument))
                 THEN <<>>
                 ELSE normalize(argument)
    /\ lexed' = loop(loop_start, tokens')
    /\ parsed' = parse(argument)
    /\ pc' = "done"
    /\ UNCHANGED <<argument, matcher_vars>>

NextLex == Parse

SpecLex == InitLex /\ [][NextLex]_vars

(***************************************************************************)
(* Properties of NaturalParser.parse                                       *)
(***************************************************************************)
Count(w, words) == Cardinality({i \in 1..Len(words) : words[i] = w})

\* how many tokens the loop reads as w
Read(w) == Cardinality({i \in 1..Len(tokens) : str_lower(tokens[i]) = w})

\* the tokens the loop did not take as macros
Kept == {i \in 1..Len(tokens) : ~lexed.consumed[i]}

FirstKept == CHOOSE i \in Kept : \A j \in Kept : i <= j

\* the first token that is not a consumed macro is not a flag either: only
\* macros came before it, so it is met with arg_count = 0
BareSubject ==
    /\ pc = "done"
    /\ Kept # {}
    /\ ~starts_with_dashes(flag_form(loop_start, tokens[FirstKept]))

\* the groups the flush adds for the name a of an option
Flushed(a) ==
    IF \/ a = "by" /\ lexed.macro_by # ""
       \/ a = "from" /\ lexed.macro_from # ""
       \/ a = "of" /\ lexed.macro_of # ""
       \/ a = "opt" /\ lexed.opts # <<>>
       \/ a = "rank" /\ lexed.ranks # <<>>
    THEN 1
    ELSE 0

\* C8: when the first token that is neither a flag nor a consumed macro comes
\* before every flag, the canonical output starts with "--of" and that token
\* (lower-cased); this implicit "--of" is the only one besides the "--of" the
\* text spells out and the one the flush adds for a macro; every later bare
\* keyword is rewritten to its flag and none stays bare. "birds" gives
\* "--of birds" and "birds by me" gives "--of birds --by me".
C8_ImplicitOf ==
    BareSubject =>
        /\ parsed.kind = "return"
        /\ parsed.words[1] = "--of"
        /\ parsed.words[2] = str_lower(tokens[FirstKept])
        /\ Count("--of", parsed.words) = 1 + Read("--of") + Flushed("of")
        /\ \A a \in REMAINING_ARGS :
              /\ Count(a, parsed.words) = 0
              /\ Count(dashed(a), parsed.words) = Read(a) + Read(dashed(a)) + Flushed(a)
        /\ (argument = <<"birds">> => parsed.words = <<"--of", "birds">>)
        /\ (argument = <<"birds", "by", "me">>
               => parsed.words = <<"--of", "birds", "--by", "me">>)

\* a macro is consumed first, then a bare word gets the implicit "--of", and
\* the later "by" is rewritten
C8_BirdsByMe ==
    /\ BareSubject
    /\ argument = <<"my", "birds", "by", "me">>
    /\ parsed = Handed(<<"--of", "birds", "--by", "me">>)

\* the token is a macro that defines something
IsMacro(token) ==
    /\ str_lower(token) \in DOMAIN MACROS
    /\ MACROS[str_lower(token)] # NoMacro

\* the text consists of macros
OnlyMacros ==
    /\ pc = "done"
    /\ tokens # <<>>
    /\ \A i \in 1..Len(tokens) : IsMacro(tokens[i])

\* the macros of the text that define the category
Defining(category) ==
    {i \in 1..Len(tokens) : IsMacro(tokens[i]) /\ MACROS[str_lower(tokens[i])][category] # ""}

Last(indices) == CHOOSE i \in indices : \A j \in indices : j <= i

\* C9: for a text consisting of macros, each of the categories by, from and of
\* that some macro defines has exactly one flag in the canonical output, with
\* the value of the last macro defining it, however many define it; a category
\* no macro defines has no flag.
C9_LastMacroWins ==
    OnlyMacros =>
        /\ parsed.kind = "return"
        /\ \A category \in {"by", "from", "of"} :
              IF Defining(category) = {}
              THEN Count(dashed(category), parsed.words) = 0
              ELSE /\ Count(dashed(category), parsed.words) = 1
                   /\ \E k \in 1..(Len(parsed.words) - 1) :
                         /\ parsed.words[k] = dashed(category)
                         /\ parsed.words[k + 1]
                              = MACROS[str_lower(tokens[Last(Defining(category))])][category]

\* two macros defining by, around one defining from
C9_TwoByMacros ==
    /\ OnlyMacros
    /\ argument = <<"my", "home", "ours">>
    /\ parsed = Handed(<<"--by", "us", "--from", "home">>)

\* the token is an explicit "--by", spelled with or without the dashes
ByFlag(i) == str_lower(tokens[i]) \in {"by", "--by"}

\* the token was consumed as a macro that defines by
ByMacro(i) == lexed.consumed[i] /\ MACROS[str_lower(tokens[i])].by # ""

\* a consumed macro defining by comes after an explicit "--by", and neither
\* another such macro nor another "--by" comes after it
MacroAfterBy(j) ==
    /\ pc = "done"
    /\ j \in 1..Len(tokens)
    /\ ByMacro(j)
    /\ \E i \in 1..(j - 1) : ByFlag(i)
    /\ \A k \in (j + 1)..Len(tokens) : ~ByFlag(k) /\ ~ByMacro(k)

\* C10: when an explicit "--by" is followed later by a consumed macro that
\* defines by, the explicit flag does not block the macro: the pending by value
\* at the end of the loop is the macro's, and the last "--by" group of the
\* canonical output carries the macro's value.
C10_MacroAfterExplicit ==
    \A j \in 1..MaxTokens + 1 :
        MacroAfterBy(j) =>
            /\ lexed.macro_by = MACROS[str_lower(tokens[j])].by
            /\ parsed.kind = "return"
            /\ \E k \in 1..(Len(parsed.words) - 1) :
                  /\ parsed.words[k] = "--by"
                  /\ parsed.words[k + 1] = MACROS[str_lower(tokens[j])].by
                  /\ \A m \in (k + 1)..Len(parsed.words) : parsed.words[m] # "--by"

\* "--by me" and then the macro "ours": the output ends with the macro's value
C10_ByMeOurs ==
    /\ MacroAfterBy(3)
    /\ argument = <<"--by", "me", "ours">>
    /\ parsed = Handed(<<"--by", "me", "--by", "us">>)

\* C11: for every text on which parse succeeds, parse of its canonical output
\* is that same canonical output.
C11_Idempotent ==
    (pc = "done" /\ parsed.kind = "return") => parse(parsed.words) = parsed

\* C12: a text that is not an observation link either fails with BadArgument,
\* when shlex.split cannot split it, or gives a canonical output that is not
\* empty and whose first token starts with "--"; there is no other outcome.
C12_TwoOutcomes ==
    (pc = "done" /\ ~has_link(argument)) =>
        IF shlex_fails(normalize(argument))
        THEN parsed = Failed("BadArgument")
        ELSE /\ parsed.kind = "return"
             /\ parsed.words # <<>>
             /\ starts_with_dashes(parsed.words[1])

\* the text with every keyword phrase that another word follows made one
\* hyphenated word, whatever its case, from word i on
RECURSIVE every_phrase(_, _)
every_phrase(text, i) ==
    IF i > Len(text)
    THEN <<>>
    ELSE IF i + 2 <= Len(text) /\ glued(str_lower(text[i]), str_lower(text[i + 1])) # ""
    THEN <<glued(str_lower(text[i]), str_lower(text[i + 1]))>> \o every_phrase(text, i + 2)
    ELSE <<text[i]>> \o every_phrase(text, i + 1)

\* the text was split: tokens holds the normalized text
Split == pc = "done" /\ ~has_link(argument) /\ ~shlex_fails(normalize(argument))

\* C13: the normalized text is the text with every occurrence of "not by",
\* "id by", "in prj" and "added on|since|until" rewritten to its hyphenated
\* word, in any case and however many there are, and nothing else changed.
C13_EveryPhrase ==
    Split => tokens = every_phrase(argument, 1)

\* the locals when the loop comes to token i
Before(i) == loop(loop_start, SubSeq(tokens, 1, i - 1))

\* token i as the loop reads it
ReadAs(i) == flag_form(Before(i), tokens[i])

\* token i is read as a flag other than "--of"
OtherFlag(i) == starts_with_dashes(ReadAs(i)) /\ ReadAs(i) # "--of"

\* C14: a macro keyword right after a flag other than "--of" is not expanded
\* and is appended as it is; every other macro keyword is expanded, those in
\* the "--of" argument and right after "--of" included, and so is the one that
\* comes after the first ordinary token following a flag. "--from home" keeps
\* "home", "--of rg birds" expands "rg".
C14_Suppression ==
    Split =>
        /\ \A i \in 1..Len(tokens) :
              IsMacro(tokens[i]) =>
                  IF i > 1 /\ OtherFlag(i - 1)
                  THEN /\ ~lexed.consumed[i]
                       /\ Before(i + 1).expanded_tokens
                            = Append(Before(i).expanded_tokens, str_lower(tokens[i]))
                       /\ ~Before(i + 1).suppress_macro
                  ELSE /\ lexed.consumed[i]
                       /\ Before(i + 1).expanded_tokens = Before(i).expanded_tokens
        /\ (argument = <<"--from", "home">> => parsed = Handed(<<"--from", "home">>))
        /\ (argument = <<"--of", "rg", "birds">>
               => parsed = Handed(<<"--of", "birds", "--opt", "quality_grade=research">>))

\* "home" right after "--from" is kept, "my" after it is expanded again
C14_FromHomeMy ==
    /\ Split
    /\ argument = <<"--from", "home", "my">>
    /\ lexed.consumed = <<FALSE, FALSE, TRUE>>
    /\ parsed = Handed(<<"--from", "home", "--by", "me">>)

Categories == {"by", "from", "of"}

\* token i was consumed as a macro that defines the category
MacroOf(category, i) ==
    lexed.consumed[i] /\ MACROS[str_lower(tokens[i])][category] # ""

\* the tokens the loop reads as the flag of the category
Explicit(category) == {j \in 1..Len(tokens) : ReadAs(j) = dashed(category)}

\* a consumed macro defining the category, later an explicit flag of the
\* category, and no consumed macro defining the category after that flag
MacroThenExplicit(category) ==
    /\ Split
    /\ \E i \in 1..Len(tokens) : \E j \in Explicit(category) :
          /\ i < j
          /\ MacroOf(category, i)
          /\ \A k \in (j + 1)..Len(tokens) : ~MacroOf(category, k)

\* the values of the consumed macros defining the category are in the output
\* only where the text has them as tokens of its own
MacroValuesGone(category) ==
    \A i \in 1..Len(tokens) :
        MacroOf(category, i) =>
            Count(MACROS[str_lower(tokens[i])][category], parsed.words)
              = Cardinality({k \in Kept :
                               str_lower(tokens[k]) = MACROS[str_lower(tokens[i])][category]})

\* C15 as stated: when a macro defining by (from, of) is followed later by the
\* one explicit flag of that category and by no macro of the category after
\* it, the macro's value is not in the canonical output and the output has
\* exactly one flag of the category.
C15_ExactlyOneFlag ==
    \A category \in Categories :
        (MacroThenExplicit(category) /\ Cardinality(Explicit(category)) = 1) =>
            /\ MacroValuesGone(category)
            /\ Count(dashed(category), parsed.words) = 1

\* C15, amended: when a macro defining by (from, of) is followed later by an
\* explicit flag of that category and by no macro of the category after it, no
\* value of the category is pending after the loop, the macro's value is not in
\* the canonical output, and the flags of the category in the output are the
\* explicit ones and, for of, the implicit "--of" of a leading bare word.
C15_ExplicitClearsMacro ==
    \A category \in Categories :
        MacroThenExplicit(category) =>
            /\ Flushed(category) = 0
            /\ MacroValuesGone(category)
            /\ Count(dashed(category), parsed.words)
                 = Cardinality(Explicit(category))
                   + (IF category = "of" /\ BareSubject THEN 1 ELSE 0)

\* the macros "my" and "home", then an explicit "by": only "--from home" is
\* flushed
C15_MyHomeByBirds ==
    /\ MacroThenExplicit("by")
    /\ argument = <<"my", "home", "by", "birds">>
    /\ parsed = Handed(<<"--by", "birds", "--from", "home">>)

\* the macros that define of and nothing else
OfMacros ==
    {m \in DOMAIN MACROS :
        MACROS[m] = [opt |-> <<>>, by |-> "", from |-> "", of |-> MACROS[m].of]
        /\ MACROS[m].of # ""}

\* C16: for every macro defining only of, the text that is this macro alone is
\* consumed whole by the expansion and gives "--of" and the macro's value.
C16_OfMacroAlone ==
    \A m \in OfMacros :
        (pc = "done" /\ argument = <<m>>) =>
            /\ lexed.consumed = <<TRUE>>
            /\ lexed.expanded_tokens = <<>>
            /\ parsed = Handed(<<"--of", MACROS[m].of>>)

\* the macro "fish" alone
C16_Fish ==
    /\ pc = "done"
    /\ "fish" \in OfMacros
    /\ argument = <<"fish">>
    /\ parsed = Handed(<<"--of", "fishes">>)

\* token j is read as "--opt" while options of earlier macros are pending
OptWithPending(j) ==
    /\ Split
    /\ j \in 1..Len(tokens)
    /\ ReadAs(j) = "--opt"
    /\ Before(j).opts # <<>>

\* token k was consumed as a macro that defines options
OptMacro(k) == lexed.consumed[k] /\ MACROS[str_lower(tokens[k])].opt # <<>>

\* C20: when "opt" is read while options of earlier macros are pending, the
\* loop appends "--opt" and all pending options and empties the accumulator; a
\* value the user gives next is appended as it is, lower-cased, to the same
\* group; and the flush adds an "--opt" group only if a macro defining options
\* was consumed after that flag. "reverse birds opt observed_on=x" gives
\* "--of birds --opt order=asc observed_on=x".
C20_OptSplice ==
    /\ \A j \in 1..MaxTokens + 1 :
          OptWithPending(j) =>
              /\ Before(j + 1).expanded_tokens
                   = Before(j).expanded_tokens \o <<"--opt">> \o Before(j).opts
              /\ Before(j + 1).opts = <<>>
              /\ (j < Len(tokens) /\ ~starts_with_dashes(ReadAs(j + 1))) =>
                    Before(j + 2).expanded_tokens
                      = Append(Before(j + 1).expanded_tokens, str_lower(tokens[j + 1]))
              /\ Flushed("opt") = 1 => \E k \in (j + 1)..Len(tokens) : OptMacro(k)
    /\ (pc = "done" /\ argument = <<"reverse", "birds", "opt", "observed_on=x">>) =>
          parsed = Handed(<<"--of", "birds", "--opt", "order=asc", "observed_on=x">>)

\* the options of "reverse" are pending when "opt" comes
C20_ReverseBirdsOpt ==
    /\ OptWithPending(3)
    /\ argument = <<"reverse", "birds", "opt", "observed_on=x">>
    /\ parsed = Handed(<<"--of", "birds", "--opt", "order=asc", "observed_on=x">>)

\* what the loop appends for token i when it keeps it: the implicit "--of"
\* before a leading bare word, the token lower-cased, with its dashes when it
\* is read as an option, and the pending options behind an "--opt"
kept_as(i) ==
    (IF BareSubject /\ i = FirstKept THEN <<"--of">> ELSE <<>>)
        \o <<ReadAs(i)>>
        \o (IF ReadAs(i) = "--opt" THEN Before(i).opts ELSE <<>>)

\* the kept tokens from token i on, in the order of the text
RECURSIVE kept_from(_)
kept_from(i) ==
    IF i > Len(tokens)
    THEN <<>>
    ELSE (IF lexed.consumed[i] THEN <<>> ELSE kept_as(i)) \o kept_from(i + 1)

\* the groups built from the values still pending after the loop
pending_groups ==
    (IF lexed.opts # <<>> THEN <<"--opt">> \o lexed.opts ELSE <<>>)
        \o (IF lexed.macro_by # "" THEN <<"--by", lexed.macro_by>> ELSE <<>>)
        \o (IF lexed.macro_from # "" THEN <<"--from", lexed.macro_from>> ELSE <<>>)
        \o (IF lexed.macro_of # "" THEN <<"--of", lexed.macro_of>> ELSE <<>>)

\* C22: the canonical output of a text that was split into tokens is, in the
\* order of the text, every token not consumed as a macro, once, lower-cased
\* and with "--" before it when it is read as a bare keyword; the lexer adds
\* only one implicit "--of" before a leading bare word, the pending options
\* behind an explicit "--opt", and after all tokens the groups of the values
\* still pending; a consumed macro leaves no token.
C22_TokenConservation ==
    (Split /\ tokens # <<>>) =>
        /\ parsed.kind = "return"
        /\ parsed.words = kept_from(1) \o pending_groups
        /\ \A i \in Kept :
              \/ ReadAs(i) = str_lower(tokens[i])
              \/ /\ str_lower(tokens[i]) \in ARGPARSE_ARGS
                 /\ ReadAs(i) = dashed(str_lower(tokens[i]))

\* a consumed macro, a bare word in capitals, a flag and a macro keyword kept
\* after it: the macro's options come last
C22_RgBirdsFromHome ==
    /\ Split
    /\ argument = <<"rg", "Birds", "--from", "home">>
    /\ lexed.consumed = <<TRUE, FALSE, FALSE, FALSE>>
    /\ parsed = Handed(<<"--of", "birds", "--from", "home", "--opt", "quality_grade=research">>)

(***************************************************************************)
(* Further properties of the matcher                                       *)
(***************************************************************************)
\* C17: when there are candidates and none is returned, the failure is a
\* LookupError whose reason is "No exact match" when the query holds phrases,
\* and another reason when it holds none.
C17_FailureReason ==
    (Done /\ records # <<>> /\ result.kind # "return") =>
        /\ result.kind = "LookupError"
        /\ (query.phrases # <<>>) <=> NoAcceptableMatch

\* one of the query's phrases is in the candidate's matched term
PhraseOnTerm(rec) ==
    /\ rec.term # None
    /\ \E k \in 1..Len(query.phrases) : re_search(WordPattern(query.phrases[k]), rec.term)

\* the joined terms of a query with a taxon_id are the candidate's name or
\* common name
WholeOnName(rec) ==
    /\ query.taxon_id # 0
    /\ \/ re_search(WholePattern(query.terms), rec.name)
       \/ rec.common # None /\ re_search(WholePattern(query.terms), rec.common)

\* the joined terms of a query with a taxon_id are the candidate's matched term
WholeOnTerm(rec) ==
    /\ query.taxon_id # 0
    /\ rec.term # None
    /\ re_search(WholePattern(query.terms), rec.term)

\* the score of the first rule that applies to the candidate
first_rule(rec) ==
    IF Excluded(rec) THEN -1
    ELSE IF CodeMatch(rec) THEN 300
    ELSE IF PhraseOnName(rec) THEN 210
    ELSE IF PhraseOnTerm(rec) THEN 200
    ELSE IF WholeOnName(rec) THEN 120
    ELSE IF WholeOnTerm(rec) THEN 110
    ELSE 100

\* C18: score_match gives every candidate a score, one of -1, 100, 110, 120,
\* 200, 210 and 300: that of the first rule that applies, in the order
\* ancestor rejection, code, phrase on name or common name, phrase on term,
\* whole query on name or common name, whole query on term, default.
C18_FirstRule ==
    (Done /\ records # <<>>) =>
        /\ Len(scores) = Len(records)
        /\ \A i \in 1..Len(records) :
              /\ scores[i] \in {-1, 100, 110, 120, 200, 210, 300}
              /\ scores[i] = first_rule(records[i])

\* the candidate's name is the joined terms of a query without taxon_id, and no
\* rule before the whole-query rules applies to the candidate
NameOnly(rec) ==
    /\ query.taxon_id = 0
    /\ re_search(WholePattern(query.terms), rec.name)
    /\ ~Excluded(rec)
    /\ ~CodeMatch(rec)
    /\ ~PhraseOnName(rec)
    /\ ~PhraseOnTerm(rec)

\* C19: a score of 120 or 110 is given only to a candidate of a query with a
\* taxon_id, whose name or common name (120) or matched term (110) is the
\* joined terms; without taxon_id a candidate whose name is the joined terms,
\* and to which no earlier rule applies, scores 100.
C19_WholeQuery ==
    (Done /\ records # <<>>) =>
        /\ \A i \in 1..Len(scores) :
              /\ scores[i] = 120 => WholeOnName(records[i])
              /\ scores[i] = 110 => WholeOnTerm(records[i])
        /\ \A i \in 1..Len(records) :
              NameOnly(records[i]) => (Len(scores) = Len(records) /\ scores[i] = 100)

\* a rule above the default applies to the candidate of a query without phrases
CodeOrWhole(rec) == CodeMatch(rec) \/ WholeOnName(rec) \/ WholeOnTerm(rec)

\* C21: for a query without phrases and a candidate list that is not empty, the
\* matcher returns a candidate or fails with the no-acceptable-match failure;
\* it fails only under an ancestor constraint that excludes every candidate;
\* without an ancestor constraint it returns a candidate, and the first of the
\* list when no candidate matches a code or whole-query rule.
C21_TrustedOrder ==
    (Done /\ query.phrases = <<>> /\ records # <<>>) =>
        /\ result.kind = "return" \/ NoAcceptableMatch
        /\ result.kind # "return" =>
              /\ ancestor_id # 0
              /\ \A i \in 1..Len(records) : Excluded(records[i])
        /\ ancestor_id = 0 =>
              /\ result.kind = "return"
              /\ \E i \in 1..Len(records) : result.rec = records[i]
              /\ (\A i \in 1..Len(records) : ~CodeOrWhole(records[i])) =>
                    result.rec = records[1]

====
